---- MODULE Spec2Model ----
(***************************************************************************)
(* Model of src/app.py: the slot scheduler (update_slots, update_slot),    *)
(* the lock sweep (lock_all_except_2, lock_check) and the secret-gated     *)
(* proxy routes (get_data, set_data) over the remote JSON store.           *)
(*                                                                         *)
(* Time is counted in ticks since 2025-01-01 00:00:00 IST; a second is     *)
(* TicksPerSecond ticks, so that datetime.now() can carry a sub-second     *)
(* part that the "%Y-%m-%d %H:%M:%S" format drops.  Asia/Kolkata has a     *)
(* fixed offset, so timedelta arithmetic on civil time is exact.           *)
(***************************************************************************)
EXTENDS Integers, Sequences, FiniteSets, TLC

\* ------------------------------------------------------------------ bounds
TicksPerSecond == 2   \* clock resolution: sub-second steps per second
MaxFailures == 1      \* store calls that may fail within one handler run

\* ------------------------------------------------------- program constants
DailyHours == 24      \* required_hours, daily
FallbackHour == 9     \* now.replace(hour=9, ...)
MarginMinutes == 2    \* margin = timedelta(minutes=2)
DailyShiftDays == 1   \* shift_days, daily
WeeklyShiftDays == 7  \* shift_days, weekly

Sec == TicksPerSecond
Minute == 60 * Sec
Hour == 60 * Minute
Day == 24 * Hour
WeeklyHours == 24 * 7

\* ---------------------------------------------------- timestamp strings
\* A stored timestamp field: a well-formed "YYYY-MM-DD HH:MM:SS" string
\* (kind "ts", t = its civil time in ticks, a whole number of seconds), the
\* empty string, a string that does not match the format, or an absent key.
TS(t) == [kind |-> "ts", t |-> t]
Empty == [kind |-> "empty", t |-> 0]
Garbage == [kind |-> "garbage", t |-> 0]
Missing == [kind |-> "missing", t |-> 0]

\* dict.get(key, default) for a timestamp field
GetOr(v, default) == IF v.kind = "missing" THEN default ELSE v

\* parse_ist / datetime.strptime: raises ValueError unless well-formed
ParseFails(s) == s.kind # "ts"
parse_ist(s) == s.t

\* format_ist: strftime drops the sub-second part of the datetime
format_ist(dt) == TS(dt - (dt % Sec))

\* now.replace(hour=9, minute=0, second=0, microsecond=0)
ReplaceHour9(now) == (now \div Day) * Day + FallbackHour * Hour


\* ------------------------------------------------------------ the store
\* The remote JSON tree.  single: the slot fields stored directly under
\* "settings" (single-slot shape); slots: the mapping "settings/slots"
\* (multi-slot shape); nodes: the other children of the root.
SlotKeys == {"slot_1", "slot_2"}
SlotOrder == <<"slot_1", "slot_2">>
NodeKeys == {"c1", "c2", "notes"}
RootOrder == <<"c1", "c2", "notes", "settings">>

VARIABLES
  clock,    \* the wall clock (ticks)
  single,   \* settings.{slot_start, slot_end, last_update, override, ...}
  slots,    \* settings/slots: slot key -> slot
  nodes,    \* root children other than settings: key -> node
  secret,   \* PROXY_SECRET
  op,       \* the route that ran last
  pre,      \* the store as it was when that route started
  calls,    \* the store calls that route made, in order
  sweeps,   \* the lock sweeps that route ran, in order
  resp,     \* the route's HTTP response
  req,      \* the X-Secret header of the request ("-" for the other routes)
  inv       \* the invocations in flight, when routes overlap: what each holds

vars == <<clock, single, slots, nodes, secret, op, pre, calls, sweeps, resp, req, inv>>

\* ---------------------------------------------------------- is_credential
required_fields ==
  {"email", "password", "expiry_date", "locked", "usage_count", "max_usage"}

\* is_credential, had it looked for the locked field alone
is_credentialLockedOnly(node) == node.isdict /\ "locked" \in node.has

is_credential(node) ==
  IF ~node.isdict THEN FALSE
  ELSE \A field \in required_fields : field \in node.has

\* ------------------------------------------------------ store primitives
\* The working state of one handler run: the store plus the run's logs.
\* The i-th store call of a run fails (non-200) iff i is in F.
NextOk(st, F) == (Len(st.calls) + 1) \notin F

Logged(st, m, path, F) ==
  [st EXCEPT !.calls = Append(@, [m |-> m, path |-> path, ok |-> NextOk(st, F)])]

SettingsEmpty(st) == ~st.single.present /\ DOMAIN st.slots = {}
RootEmpty(st) == SettingsEmpty(st) /\ DOMAIN st.nodes = {}

\* GET "/.json": the children of the root; "settings" is a dict of slot
\* fields and carries none of the credential fields.
SettingsNode == [isdict |-> TRUE, has |-> {}, locked |-> 0]
RootJson(st) ==
  [k \in DOMAIN st.nodes \cup (IF SettingsEmpty(st) THEN {} ELSE {"settings"}) |->
     IF k = "settings" THEN SettingsNode ELSE st.nodes[k]]

InOrder(order, dom) ==
  LET Has(k) == k \in dom IN SelectSeq(order, Has)

\* requests.patch(REAL_DB_URL + "/{key}.json", json={"locked": 1})
PatchLocked(st, key, F) ==
  LET st1 == Logged(st, "PATCH", <<key>>, F) IN
  IF NextOk(st, F) /\ key \in DOMAIN st.nodes
    THEN [st1 EXCEPT !.nodes[key].locked = 1]
    ELSE st1

\* --------------------------------------------------- lock_all_except_2
RECURSIVE LockLoop(_, _, _, _, _)
LockLoop(keys, all_data, st, F, locked_count) ==
  IF keys = <<>> THEN [st |-> st, locked_count |-> locked_count]
  ELSE
    LET key == Head(keys)
        node == all_data[key]
    IN
    IF ~is_credential(node) THEN LockLoop(Tail(keys), all_data, st, F, locked_count)
    ELSE IF node.locked = 0
      THEN LockLoop(Tail(keys), all_data, PatchLocked(st, key, F), F,
                    IF NextOk(st, F) THEN locked_count + 1 ELSE locked_count)
      ELSE LockLoop(Tail(keys), all_data, st, F, locked_count)

\* What one sweep did: its calls are calls[at..until]; reported is the
\* locked_count it prints or returns.
SweepRecord(by, st, stEnd, read, reported) ==
  [by |-> by, at |-> Len(st.calls) + 1, until |-> Len(stEnd.calls), read |-> read,
   reported |-> reported, before |-> st.nodes, after |-> stEnd.nodes]

lock_all_except_2(st, F) ==
  LET st1 == Logged(st, "GET", <<>>, F) IN
  IF NextOk(st, F) /\ ~RootEmpty(st)
    THEN
      LET all_data == RootJson(st)
          r == LockLoop(InOrder(RootOrder, DOMAIN all_data), all_data, st1, F, 0)
      IN [r.st EXCEPT !.sweeps =
            Append(@, SweepRecord("lock_all_except_2", st, r.st, TRUE, r.locked_count))]
    ELSE [st1 EXCEPT !.sweeps =
            Append(@, SweepRecord("lock_all_except_2", st, st1, FALSE, 0))]

\* ------------------------------------------------------------ update_slots
\* slot_info.get("period", "daily"): "missing" stands for an absent key
GetPeriod(slot_info) == IF slot_info.period = "missing" THEN "daily" ELSE slot_info.period

\* last_update_dt, had an empty or malformed string stood for the epoch
LastUpdateOrEpoch(last_up_str, now) ==
  IF last_up_str.kind = "empty" THEN 0
  ELSE IF ParseFails(last_up_str) THEN 0
  ELSE parse_ist(last_up_str)

\* lines 116-119: last_update_dt, with now for an empty or malformed string
LastUpdateOrNow(last_up_str, now) ==
  IF last_up_str.kind = "empty" THEN now
  ELSE IF ParseFails(last_up_str) THEN now
  ELSE parse_ist(last_up_str)

\* required_hours without the weekly branch
required_hoursAlwaysDaily(period_str) == DailyHours

required_hours(period_str) ==
  IF period_str = "weekly" THEN WeeklyHours ELSE DailyHours

\* shift_days without the weekly branch
shift_daysAlwaysOne(period_str) == DailyShiftDays

shift_days(period_str) ==
  IF period_str = "weekly" THEN WeeklyShiftDays ELSE DailyShiftDays

\* lines 139-144: start_dt, with 09:00 of today for a malformed slot_start
StartOrFallback(slot_start_str, now) ==
  IF ParseFails(slot_start_str) THEN ReplaceHour9(now) ELSE parse_ist(slot_start_str)

\* requests.patch(".../settings/slots/{slot_key}.json", json=patch_data)
PatchSlot(st, slot_key, patch_data, F) ==
  LET st1 == Logged(st, "PATCH", <<"settings", "slots", slot_key>>, F) IN
  IF NextOk(st, F) /\ slot_key \in DOMAIN st.slots /\ st.slots[slot_key].isdict
    THEN [st1 EXCEPT !.slots[slot_key].slot_start = patch_data.slot_start,
                     !.slots[slot_key].slot_end = patch_data.slot_end,
                     !.slots[slot_key].last_update = patch_data.last_update]
    ELSE st1

\* patch_data, had last_update been stamped with the new slot_start
ShiftDataStampsStart(slot_info, now) ==
  LET start_dt == StartOrFallback(GetOr(slot_info.slot_start, Empty), now)
      next_slot_start == start_dt + shift_days(GetPeriod(slot_info)) * Day
      next_slot_end == next_slot_start + shift_days(GetPeriod(slot_info)) * Day
  IN [slot_start |-> format_ist(next_slot_start),
      slot_end |-> format_ist(next_slot_end),
      last_update |-> format_ist(next_slot_start)]

\* patch_data, had the window been moved on by every shift amount that
\* has elapsed since slot_start
ShiftDataCatchUp(slot_info, now) ==
  LET start_dt == StartOrFallback(GetOr(slot_info.slot_start, Empty), now)
      amount == shift_days(GetPeriod(slot_info)) * Day
      elapsed == IF now > start_dt THEN (now - start_dt) \div amount ELSE 0
      next_slot_start == start_dt + amount * (IF elapsed > 1 THEN elapsed ELSE 1)
      next_slot_end == next_slot_start + amount
  IN [slot_start |-> format_ist(next_slot_start),
      slot_end |-> format_ist(next_slot_end),
      last_update |-> format_ist(now)]

\* lines 139-160: patch_data, the shifted window and the new last_update
ShiftData(slot_info, now) ==
  LET start_dt == StartOrFallback(GetOr(slot_info.slot_start, Empty), now)
      next_slot_start == start_dt + shift_days(GetPeriod(slot_info)) * Day
      next_slot_end == next_slot_start + shift_days(GetPeriod(slot_info)) * Day
  IN [slot_start |-> format_ist(next_slot_start),
      slot_end |-> format_ist(next_slot_end),
      last_update |-> format_ist(now)]

\* the shift without the call of lock_all_except_2
ShiftSlotNoSweep(slot_key, slot_info, st, F, now) ==
  PatchSlot(st, slot_key, ShiftData(slot_info, now), F)

\* the shift, had it called lock_all_except_2 whatever the patch returned
ShiftSlotAlwaysSweep(slot_key, slot_info, st, F, now) ==
  lock_all_except_2(PatchSlot(st, slot_key, ShiftData(slot_info, now), F), F)

\* lines 139-168: the shift of one slot and the sweep that follows it
ShiftSlot(slot_key, slot_info, st, F, now) ==
  LET patch_data == ShiftData(slot_info, now)
      st1 == PatchSlot(st, slot_key, patch_data, F)
  IN IF NextOk(st, F) THEN lock_all_except_2(st1, F) ELSE st1

\* the loop body, had override forced the shift before the elapsed time is
\* looked at
ProcessSlotForcedByOverride(slot_key, slot_info, st, F, now) ==
  IF ~slot_info.isdict THEN st
  ELSE IF ~slot_info.enabled THEN st
  ELSE
    LET last_update_dt == LastUpdateOrNow(GetOr(slot_info.last_update, Empty), now)
    IN IF ~slot_info.override
          /\ now - last_update_dt < required_hours(GetPeriod(slot_info)) * Hour
         THEN st
         ELSE ShiftSlot(slot_key, slot_info, st, F, now)

\* the loop body without the enabled check
ProcessSlotIgnoringEnabled(slot_key, slot_info, st, F, now) ==
  IF ~slot_info.isdict THEN st
  ELSE
    LET last_update_dt == LastUpdateOrNow(GetOr(slot_info.last_update, Empty), now)
    IN IF now - last_update_dt < required_hours(GetPeriod(slot_info)) * Hour THEN st
       ELSE IF slot_info.override THEN st
       ELSE ShiftSlot(slot_key, slot_info, st, F, now)

\* lines 103-137: the body of the loop up to the decision to shift
ProcessSlot(slot_key, slot_info, st, F, now) ==
  IF ~slot_info.isdict THEN st
  ELSE IF ~slot_info.enabled THEN st
  ELSE
    LET override == slot_info.override
        period_str == GetPeriod(slot_info)
        last_update_dt == LastUpdateOrNow(GetOr(slot_info.last_update, Empty), now)
    IN IF now - last_update_dt < required_hours(period_str) * Hour THEN st
       ELSE IF override THEN st
       ELSE ShiftSlot(slot_key, slot_info, st, F, now)

\* the loop, had it been left at the first call that fails
RECURSIVE SlotLoopLeftOnFailure(_, _, _, _, _)
SlotLoopLeftOnFailure(keys, slots_data, st, F, now) ==
  IF keys = <<>> THEN st
  ELSE IF \E i \in DOMAIN st.calls : ~st.calls[i].ok THEN st
  ELSE SlotLoopLeftOnFailure(Tail(keys), slots_data,
         ProcessSlot(Head(keys), slots_data[Head(keys)], st, F, now), F, now)

RECURSIVE SlotLoop(_, _, _, _, _)
SlotLoop(keys, slots_data, st, F, now) ==
  IF keys = <<>> THEN st
  ELSE SlotLoop(Tail(keys), slots_data,
                ProcessSlot(Head(keys), slots_data[Head(keys)], st, F, now), F, now)

Response(status, body) == [status |-> status, body |-> body]

update_slots(st, F, now) ==
  LET st1 == Logged(st, "GET", <<"settings", "slots">>, F) IN
  IF ~NextOk(st, F) \/ DOMAIN st.slots = {}
    THEN [st |-> st1, resp |-> Response(200, "No 'slots' or request error.")]
    ELSE [st |-> SlotLoop(InOrder(SlotOrder, DOMAIN st.slots), st.slots, st1, F, now),
          resp |-> Response(200, "All multi-slots updated.")]

\* ------------------------------------------------------------- update_slot
\* requests.patch(REAL_DB_URL + "settings.json", json=new_data)
PatchSettings(st, new_data, F) ==
  LET st1 == Logged(st, "PATCH", <<"settings">>, F) IN
  IF NextOk(st, F)
    THEN [st1 EXCEPT !.single.present = TRUE,
                     !.single.slot_start = new_data.slot_start,
                     !.single.slot_end = new_data.slot_end,
                     !.single.override = new_data.override,
                     !.single.last_update = new_data.last_update]
    ELSE st1

update_slot(st, F, now) ==
  LET st1 == Logged(st, "GET", <<"settings">>, F) IN
  IF NextOk(st, F) /\ ~SettingsEmpty(st)
    THEN
      LET data == st.single
          override == data.override
          last_update_dt == LastUpdateOrNow(GetOr(data.last_update, Empty), now)
      IN
      IF now - last_update_dt < DailyHours * Hour
        THEN [st |-> st1, resp |-> Response(200, "No single-slot shift.")]
        ELSE
          LET slot_start_dt == StartOrFallback(GetOr(data.slot_start, Empty), now)
              next_slot_start == slot_start_dt + DailyShiftDays * Day
              next_slot_end == next_slot_start + DailyShiftDays * Day
              new_data == [slot_start |-> format_ist(next_slot_start),
                           slot_end |-> format_ist(next_slot_end),
                           override |-> override,
                           last_update |-> format_ist(now)]
              st2 == PatchSettings(st1, new_data, F)
          IN [st |-> IF NextOk(st1, F) THEN lock_all_except_2(st2, F) ELSE st2,
              resp |-> Response(200, "Single-slot shift done.")]
    ELSE [st |-> st1, resp |-> Response(200, "No single-slot update.")]

\* -------------------------------------------------------------- lock_check
\* update_credential_locked(key, 1): the response is printed, not checked
update_credential_locked(st, credential_key, F) == PatchLocked(st, credential_key, F)

\* the loop of lock_check, had it locked every credential not yet at 1
RECURSIVE CheckLoopLocksExempt(_, _, _, _, _)
CheckLoopLocksExempt(keys, all_data, st, F, locked_count) ==
  IF keys = <<>> THEN [st |-> st, locked_count |-> locked_count]
  ELSE
    LET key == Head(keys)
        node == all_data[key]
    IN
    IF ~is_credential(node)
      THEN CheckLoopLocksExempt(Tail(keys), all_data, st, F, locked_count)
    ELSE IF node.locked # 1
      THEN CheckLoopLocksExempt(Tail(keys), all_data,
                                update_credential_locked(st, key, F), F, locked_count + 1)
      ELSE CheckLoopLocksExempt(Tail(keys), all_data, st, F, locked_count)

RECURSIVE CheckLoop(_, _, _, _, _)
CheckLoop(keys, all_data, st, F, locked_count) ==
  IF keys = <<>> THEN [st |-> st, locked_count |-> locked_count]
  ELSE
    LET key == Head(keys)
        node == all_data[key]
    IN
    IF ~is_credential(node) THEN CheckLoop(Tail(keys), all_data, st, F, locked_count)
    ELSE IF node.locked = 0
      THEN CheckLoop(Tail(keys), all_data, update_credential_locked(st, key, F), F,
                     locked_count + 1)
      ELSE CheckLoop(Tail(keys), all_data, st, F, locked_count)

\* "9999-12-31 09:00:00", the default of s_data.get("slot_end", ...): a time
\* after every value the clock takes
FarFuture == 2000000000

\* lines 262-275: the sweep of lock_check
LockCheckSweep(st, F) ==
  LET st1 == Logged(st, "GET", <<>>, F) IN
  IF NextOk(st, F) /\ ~RootEmpty(st)
    THEN
      LET all_data == RootJson(st)
          r == CheckLoop(InOrder(RootOrder, DOMAIN all_data), all_data, st1, F, 0)
      IN [st |-> [r.st EXCEPT !.sweeps =
                    Append(@, SweepRecord("lock_check", st, r.st, TRUE, r.locked_count))],
          resp |-> Response(200, "Locked {locked_count} creds.")]
    ELSE [st |-> [st1 EXCEPT !.sweeps =
                    Append(@, SweepRecord("lock_check", st, st1, FALSE, 0))],
          resp |-> Response(200, "Failed to fetch credentials.")]

\* the comparison, had it held in the last minutes of the window only
TimeToLockInMarginOnly(now, slot_end_dt) ==
  LET margin == MarginMinutes * Minute
  IN now >= slot_end_dt - margin /\ now <= slot_end_dt

\* the comparison without the margin
TimeToLockNoMargin(now, slot_end_dt) == now >= slot_end_dt

\* lines 260-261: now >= (slot_end_dt - margin)
TimeToLock(now, slot_end_dt) ==
  LET margin == MarginMinutes * Minute
  IN now >= slot_end_dt - margin

\* the clock of lock_check is datetime.now(), the server's local civil time;
\* the server is taken to run in the store's timezone
lock_check(st, F, now) ==
  LET st1 == Logged(st, "GET", <<"settings">>, F) IN
  IF NextOk(st, F) /\ ~SettingsEmpty(st)
    THEN
      LET s_data == st.single
          slot_end_str == GetOr(s_data.slot_end, TS(FarFuture))
      IN
      IF ParseFails(slot_end_str)
        THEN [st |-> st1, resp |-> Response(200, "slot_end invalid.")]
        ELSE
          LET slot_end_dt == parse_ist(slot_end_str)
          IN IF TimeToLock(now, slot_end_dt)
               THEN LockCheckSweep(st1, F)
               ELSE [st |-> st1, resp |-> Response(200, "Not time to lock yet.")]
    ELSE [st |-> st1, resp |-> Response(200, "No settings or request error.")]

\* ------------------------------------------------------------ proxy routes
\* token: request.headers.get("X-Secret"); "<none>" stands for None, the
\* value of an absent header, which equals no string.
\* get_data without the comparison of the header
get_dataUnchecked(st, F, token, PROXY_SECRET) ==
  LET st1 == Logged(st, "GET", <<>>, F) IN
  IF ~NextOk(st, F)
    THEN [st |-> st1, resp |-> Response(500, "Failed to read DB")]
    ELSE [st |-> st1, resp |-> Response(200, "<root json>")]

get_data(st, F, token, PROXY_SECRET) ==
  IF token # PROXY_SECRET
    THEN [st |-> st, resp |-> Response(403, "Unauthorized")]
    ELSE
      LET st1 == Logged(st, "GET", <<>>, F) IN
      IF ~NextOk(st, F)
        THEN [st |-> st1, resp |-> Response(500, "Failed to read DB")]
        ELSE [st |-> st1, resp |-> Response(200, "<root json>")]

set_data(st, F, token, PROXY_SECRET, data) ==
  IF token # PROXY_SECRET
    THEN [st |-> st, resp |-> Response(403, "Unauthorized")]
    ELSE
      LET st1 == Logged(st, "PUT", <<>>, F) IN
      IF ~NextOk(st, F)
        THEN [st |-> st1, resp |-> Response(500, "Failed to write DB")]
        ELSE [st |-> [st1 EXCEPT !.single = data.single, !.slots = data.slots,
                                 !.nodes = data.nodes],
              resp |-> Response(200, "ok")]

\* ------------------------------------------------------------ initial store
\* 2025-01-01 09:00:00, the slot_start and last_update the store starts with
T0 == FallbackHour * Hour

Slot(en, ov, per, lu, start, end) ==
  [isdict |-> TRUE, enabled |-> en, override |-> ov, period |-> per,
   last_update |-> lu, slot_start |-> start, slot_end |-> end]

\* a window of one shift amount, renewed at T0
BaseSlot(en, ov, per) ==
  Slot(en, ov, per, TS(T0), TS(T0), TS(T0 + (IF per = "weekly" THEN 7 * Day ELSE Day)))

\* "settings/slots/<key>" holding a scalar instead of a dict
NotADict == [Slot(FALSE, FALSE, "missing", Missing, Missing, Missing) EXCEPT !.isdict = FALSE]

Periods == {"daily", "weekly", "missing"}

OddSlots ==
  { Slot(TRUE, FALSE, "daily", TS(T0), TS(T0), TS(T0 + 12 * Hour)),
    Slot(TRUE, FALSE, "weekly", TS(T0), TS(T0), TS(T0 + Day)),
    Slot(TRUE, FALSE, "daily", TS(T0), Garbage, TS(T0 + Day)),
    Slot(TRUE, FALSE, "daily", Garbage, TS(T0), TS(T0 + Day)),
    Slot(TRUE, FALSE, "daily", Missing, TS(T0), Missing),
    NotADict }

FirstSlots == {BaseSlot(en, ov, per) : en \in BOOLEAN, ov \in BOOLEAN, per \in Periods}
                \cup OddSlots

SecondSlots ==
  { BaseSlot(TRUE, FALSE, "daily"), BaseSlot(TRUE, FALSE, "weekly"),
    BaseSlot(FALSE, TRUE, "daily"), BaseSlot(TRUE, TRUE, "weekly"),
    Slot(TRUE, FALSE, "daily", Garbage, Garbage, TS(T0 + Day)) }

Single(en, ov, per, lu, start, end) ==
  [present |-> TRUE, enabled |-> en, override |-> ov, period |-> per,
   last_update |-> lu, slot_start |-> start, slot_end |-> end]

NoSingle ==
  [present |-> FALSE, enabled |-> FALSE, override |-> FALSE, period |-> "missing",
   last_update |-> Missing, slot_start |-> Missing, slot_end |-> Missing]

Singles ==
  { Single(en, ov, per, TS(T0), TS(T0), TS(T0 + Day)) :
      en \in BOOLEAN, ov \in BOOLEAN, per \in {"daily", "weekly"} }
  \cup
  { Single(TRUE, FALSE, "daily", TS(T0), TS(T0), TS(T0 + 12 * Hour)),
    Single(TRUE, FALSE, "daily", TS(T0), Garbage, Garbage),
    Single(TRUE, FALSE, "daily", Garbage, TS(T0), Missing) }

Cred(l) == [isdict |-> TRUE, has |-> required_fields, locked |-> l]
PartialNode == [isdict |-> TRUE, has |-> required_fields \ {"max_usage"}, locked |-> 0]
ScalarNode == [isdict |-> FALSE, has |-> {}, locked |-> 0]

BaseNodes == [k \in NodeKeys |-> IF k = "notes" THEN PartialNode ELSE Cred(0)]

NodeTrees ==
  { [k \in {"c1", "notes"} \cup present2 |->
       IF k = "c1" THEN Cred(l1) ELSE IF k = "c2" THEN Cred(l2) ELSE other] :
      l1 \in 0..2, l2 \in {0, 2}, present2 \in {{}, {"c2"}},
      other \in {PartialNode, ScalarNode} }

OneSlot(v) == [k \in {"slot_1"} |-> v]
TwoSlots(v, w) == [k \in SlotKeys |-> IF k = "slot_1" THEN v ELSE w]
NoSlots == [k \in {} |-> NotADict]

Store(s, m, n) == [single |-> s, slots |-> m, nodes |-> n]

BaseStore ==
  Store(Single(TRUE, FALSE, "daily", TS(T0), TS(T0), TS(T0 + Day)),
        OneSlot(BaseSlot(TRUE, FALSE, "daily")), BaseNodes)
EmptyStore == Store(NoSingle, NoSlots, [k \in {} |-> ScalarNode])

InitStores ==
  { Store(NoSingle, OneSlot(v), BaseNodes) : v \in FirstSlots }
  \cup { Store(NoSingle, TwoSlots(v, w), BaseNodes) : v \in FirstSlots, w \in SecondSlots }
  \cup { Store(s, m, BaseNodes) :
           s \in Singles, m \in {NoSlots, OneSlot(BaseSlot(FALSE, FALSE, "daily"))} }
  \cup { Store(BaseStore.single, BaseStore.slots, n) : n \in NodeTrees }

Secrets == {"", "s3cret"}
Tokens == {"<none>", "", "s3cret", "guess"}

NoResponse == Response(0, "")

\* Spec runs each route to its end before the next one starts: nothing is
\* in flight between two of its steps.
Invocations == {"A", "B"}
Idle ==
  [pc |-> "idle", route |-> "-", now |-> 0, slots_data |-> NoSlots, data |-> NoSingle,
   due |-> <<>>, todo |-> <<>>, patched |-> {}]
NoneInFlight == [p \in Invocations |-> Idle]

Init ==
  /\ clock = T0
  /\ \E s \in InitStores :
       /\ single = s.single
       /\ slots = s.slots
       /\ nodes = s.nodes
       /\ pre = s
       /\ secret \in (IF s = BaseStore THEN Secrets ELSE {"s3cret"})
  /\ op = "init"
  /\ calls = <<>>
  /\ sweeps = <<>>
  /\ resp = NoResponse
  /\ req = "-"
  /\ inv = NoneInFlight

\* ------------------------------------------------------------------ actions
\* the instants at which the routes are called
Instants ==
  { T0 + 23 * Hour,
    T0 + Day - MarginMinutes * Minute,
    T0 + Day,
    T0 + Day + Sec + 1,
    T0 + 167 * Hour,
    T0 + 7 * Day }

\* The sets of failing calls of a run: at most MaxFailures of its calls fail,
\* named by their position among the calls of the run.  r0 is the run in
\* which no call fails: with k sweeps that patch z credentials in all, no
\* run makes more than CallBound(r0) calls (a failure can only leave the z
\* credentials to each of the later sweeps).
FailSets(n) == {F \in SUBSET (1..n) : Cardinality(F) <= MaxFailures}
NoFailure == {}
CallBound(r0) ==
  LET k == Len(r0.st.sweeps)
      n0 == Len(r0.st.calls)
  IN IF k <= 1 THEN n0 ELSE n0 + (k - 1) * (n0 - 1 - 2 * k)

Current == Store(single, slots, nodes)
Start == [single |-> single, slots |-> slots, nodes |-> nodes, calls |-> <<>>, sweeps |-> <<>>]

Commit(name, r, header) ==
  /\ single' = r.st.single
  /\ slots' = r.st.slots
  /\ nodes' = r.st.nodes
  /\ calls' = r.st.calls
  /\ sweeps' = r.st.sweeps
  /\ resp' = r.resp
  /\ pre' = Current
  /\ op' = name
  /\ req' = header
  /\ UNCHANGED <<clock, secret, inv>>

\* time passes between two requests
Tick ==
  /\ \E t \in Instants : t > clock /\ clock' = t
  /\ op' = "tick"
  /\ pre' = Current
  /\ calls' = <<>>
  /\ sweeps' = <<>>
  /\ resp' = NoResponse
  /\ req' = "-"
  /\ UNCHANGED <<single, slots, nodes, secret, inv>>

UpdateSlots ==
  \E F \in FailSets(CallBound(update_slots(Start, NoFailure, clock))) :
    \E r \in {update_slots(Start, F, clock)} : Commit("update_slots", r, "-")

UpdateSlot ==
  \E F \in FailSets(CallBound(update_slot(Start, NoFailure, clock))) :
    \E r \in {update_slot(Start, F, clock)} : Commit("update_slot", r, "-")

LockCheck ==
  \E F \in FailSets(CallBound(lock_check(Start, NoFailure, clock))) :
    \E r \in {lock_check(Start, F, clock)} : Commit("lock_check", r, "-")

GetData ==
  \E F \in FailSets(1), token \in Tokens :
    \E r \in {get_data(Start, F, token, secret)} : Commit("get_data", r, token)

SetData ==
  \E F \in FailSets(1), token \in Tokens, data \in {BaseStore, EmptyStore} :
    \E r \in {set_data(Start, F, token, secret, data)} : Commit("set_data", r, token)

Next == Tick \/ UpdateSlots \/ UpdateSlot \/ LockCheck \/ GetData \/ SetData

Spec == Init /\ [][Next]_vars

\* ------------------------------------------------ overlapping invocations
\* The routes once more, one store call to a step, for requests that overlap
\* (a slow request and the next trigger) and for a writer outside the
\* program.  Every call succeeds.  What an invocation computes between two
\* calls it computes from what it read, in the step of the earlier call.
Routes == {"update_slots", "update_slot", "lock_check"}

\* the later instants of an overlap: a second on, and a day on
RaceInstants == {T0 + Day + Sec, T0 + 2 * Day}

\* lines 207-222: new_data of update_slot
NewData(data, now) ==
  LET slot_start_dt == StartOrFallback(GetOr(data.slot_start, Empty), now)
      next_slot_start == slot_start_dt + DailyShiftDays * Day
      next_slot_end == next_slot_start + DailyShiftDays * Day
  IN [slot_start |-> format_ist(next_slot_start),
      slot_end |-> format_ist(next_slot_end),
      override |-> data.override,
      last_update |-> format_ist(now)]

\* lines 103-137: the loop of update_slots gets as far as the patch
WouldShift(slot_key, slot_info, now) ==
  ProcessSlot(slot_key, slot_info, Start, NoFailure, now) # Start

\* lines 195-203: update_slot gets as far as the patch
WouldShiftSingle(data, now) ==
  ~(now - LastUpdateOrNow(GetOr(data.last_update, Empty), now) < DailyHours * Hour)

\* lines 254-261: lock_check gets as far as the sweep
WouldSweep(s_data, now) ==
  LET slot_end_str == GetOr(s_data.slot_end, TS(FarFuture))
  IN ~ParseFails(slot_end_str) /\ TimeToLock(now, parse_ist(slot_end_str))

\* the patch of a slot, had it been computed from the slot as stored when
\* the patch is sent
PatchDataOfStored(slot_info, stored, now) == ShiftData(stored, now)

\* lines 95-160: patch_data comes from the slot_info of the one read
PatchDataOf(slot_info, stored, now) == ShiftData(slot_info, now)

\* lines 60-68, 266-268: the keys a sweep patches, from the tree it read
PendingKeys(all_data) ==
  LET IsPending(key) == is_credential(all_data[key]) /\ all_data[key].locked = 0
  IN SelectSeq(InOrder(RootOrder, DOMAIN all_data), IsPending)

\* where an invocation goes after a sweep: on with the loop, or to its end
AfterSweep(due) == IF due = <<>> THEN "done" ELSE "patch"

RaceStores ==
  { Store(BaseStore.single, m, [BaseNodes EXCEPT !["c2"].locked = l]) :
      m \in {OneSlot(BaseSlot(TRUE, FALSE, "daily")),
              TwoSlots(BaseSlot(TRUE, FALSE, "daily"), BaseSlot(TRUE, FALSE, "weekly"))},
      l \in {0, 2} }

\* a day after the last renewal: the slots are due
InitRace ==
  /\ clock = T0 + Day
  /\ \E s \in RaceStores :
       /\ single = s.single
       /\ slots = s.slots
       /\ nodes = s.nodes
       /\ pre = s
  /\ secret = "s3cret"
  /\ op = "init"
  /\ calls = <<>>
  /\ sweeps = <<>>
  /\ resp = NoResponse
  /\ req = "-"
  /\ inv = NoneInFlight

\* the first call of a route: the GET of the settings
RaceRead(p, route) ==
  /\ inv[p].pc = "idle"
  /\ LET now == clock
         IsDue(k) == WouldShift(k, slots[k], now)
         due == CASE route = "update_slots" ->
                       SelectSeq(InOrder(SlotOrder, DOMAIN slots), IsDue)
                  [] route = "update_slot" ->
                       IF ~SettingsEmpty(Start) /\ WouldShiftSingle(single, now)
                         THEN <<"settings">> ELSE <<>>
                  [] route = "lock_check" -> <<>>
         pc == IF route = "lock_check"
                 THEN IF ~SettingsEmpty(Start) /\ WouldSweep(single, now)
                        THEN "sweep" ELSE "done"
                 ELSE AfterSweep(due)
     IN inv' = [inv EXCEPT ![p] =
                  [Idle EXCEPT !.pc = pc, !.route = route, !.now = now,
                               !.slots_data = slots, !.data = single, !.due = due]]
  /\ UNCHANGED <<clock, single, slots, nodes, secret, op, pre, calls, sweeps, resp, req>>

\* the PATCH of the next slot to shift
RacePatch(p) ==
  /\ inv[p].pc = "patch"
  /\ LET k == Head(inv[p].due)
         now == inv[p].now
     IN /\ IF inv[p].route = "update_slots"
             THEN /\ slots' = PatchSlot(Start, k,
                                 PatchDataOf(inv[p].slots_data[k], slots[k], now),
                                 NoFailure).slots
                  /\ single' = single
             ELSE /\ single' = PatchSettings(Start, NewData(inv[p].data, now),
                                             NoFailure).single
                  /\ slots' = slots
        /\ inv' = [inv EXCEPT ![p].pc = "sweep", ![p].due = Tail(@),
                              ![p].patched = @ \cup {k}]
  /\ UNCHANGED <<clock, nodes, secret, op, pre, calls, sweeps, resp, req>>

\* the GET of the tree that starts a sweep
RaceSweepRead(p) ==
  /\ inv[p].pc = "sweep"
  /\ LET todo == IF RootEmpty(Start) THEN <<>> ELSE PendingKeys(RootJson(Start))
     IN inv' = [inv EXCEPT ![p].todo = todo,
                           ![p].pc = IF todo = <<>> THEN AfterSweep(inv[p].due) ELSE "lock"]
  /\ UNCHANGED <<clock, single, slots, nodes, secret, op, pre, calls, sweeps, resp, req>>

\* the PATCH {"locked": 1} of the next credential the sweep found unlocked
RaceSweepPatch(p) ==
  /\ inv[p].pc = "lock"
  /\ nodes' = PatchLocked(Start, Head(inv[p].todo), NoFailure).nodes
  /\ inv' = [inv EXCEPT ![p].todo = Tail(@),
                        ![p].pc = IF Tail(inv[p].todo) = <<>>
                                    THEN AfterSweep(inv[p].due) ELSE "lock"]
  /\ UNCHANGED <<clock, single, slots, secret, op, pre, calls, sweeps, resp, req>>

\* a writer outside the program exempts a credential for good
RaceExempt ==
  /\ \E key \in DOMAIN nodes :
       /\ is_credential(nodes[key]) /\ nodes[key].locked # 2
       /\ nodes' = [nodes EXCEPT ![key].locked = 2]
  /\ UNCHANGED <<clock, single, slots, secret, op, pre, calls, sweeps, resp, req, inv>>

\* time passes while invocations are in flight
RaceTick ==
  /\ \E t \in RaceInstants : t > clock /\ clock' = t
  /\ UNCHANGED <<single, slots, nodes, secret, op, pre, calls, sweeps, resp, req, inv>>

RaceNext ==
  \/ RaceTick
  \/ RaceExempt
  \/ \E p \in Invocations, route \in Routes : RaceRead(p, route)
  \/ \E p \in Invocations : RacePatch(p)
  \/ \E p \in Invocations : RaceSweepRead(p)
  \/ \E p \in Invocations : RaceSweepPatch(p)

RaceSpec == InitRace /\ [][RaceNext]_vars

\* ------------------------------------------------------ the triggers, on
\* The scheduler and lock_check with no other writer of the store.  Time
\* passes, and the trigger of lock_check goes on calling it: again and
\* again a run of lock_check finds every store call answered with 200.
LockCheckOk ==
  \E r \in {lock_check(Start, NoFailure, clock)} : Commit("lock_check", r, "-")

LiveNext == Tick \/ UpdateSlots \/ UpdateSlot \/ LockCheck

\* stores of Init: settings with a window of a day, of half a day, with
\* unreadable ends, or with a mapping alone; with and without an exemption
LiveSingles ==
  { NoSingle,
    Single(TRUE, FALSE, "daily", TS(T0), TS(T0), TS(T0 + Day)),
    Single(TRUE, FALSE, "daily", TS(T0), TS(T0), TS(T0 + 12 * Hour)),
    Single(TRUE, FALSE, "daily", TS(T0), Garbage, Garbage) }
LiveStores ==
  { Store(s, m, [BaseNodes EXCEPT !["c2"].locked = l]) :
      s \in LiveSingles,
      m \in {NoSlots, OneSlot(BaseSlot(TRUE, FALSE, "daily"))},
      l \in {0, 2} } \ {Store(NoSingle, NoSlots, BaseNodes)}

InitLive ==
  /\ clock = T0
  /\ \E s \in LiveStores :
       /\ single = s.single
       /\ slots = s.slots
       /\ nodes = s.nodes
       /\ pre = s
  /\ secret = "s3cret"
  /\ op = "init"
  /\ calls = <<>>
  /\ sweeps = <<>>
  /\ resp = NoResponse
  /\ req = "-"
  /\ inv = NoneInFlight

LiveSpec == InitLive /\ [][LiveNext]_vars /\ WF_vars(Tick) /\ WF_vars(LockCheckOk)

\* ------------------------------------------------ vocabulary of the claims
AllCallsOk == \A i \in DOMAIN calls : calls[i].ok
SlotPath(k) == <<"settings", "slots", k>>
SettingsPath == <<"settings">>
RootPath == <<>>
Attempted(path) == \E i \in DOMAIN calls : calls[i].m = "PATCH" /\ calls[i].path = path
PatchedOk(path) ==
  \E i \in DOMAIN calls : calls[i].m = "PATCH" /\ calls[i].path = path /\ calls[i].ok

\* the slots of the multi-slot mapping the run found
PreSlots == {k \in DOMAIN pre.slots : pre.slots[k].isdict}

ShiftedMulti(k) ==
  /\ PatchedOk(SlotPath(k))
  /\ slots[k].slot_start # pre.slots[k].slot_start
  /\ slots[k].last_update # pre.slots[k].last_update
UntouchedMulti(k) == ~Attempted(SlotPath(k)) /\ k \in DOMAIN slots /\ slots[k] = pre.slots[k]

ShiftedSingle ==
  /\ PatchedOk(SettingsPath)
  /\ single.slot_start # pre.single.slot_start
  /\ single.last_update # pre.single.last_update
UntouchedSingle == ~Attempted(SettingsPath) /\ single = pre.single

\* hours elapsed since a parsable last_update reach h
ElapsedAtLeast(slot, h) == slot.last_update.kind = "ts" /\ clock - slot.last_update.t >= h * Hour
CadenceHours(slot) == IF slot.period = "weekly" THEN 168 ELSE 24
CadenceDays(slot) == IF slot.period = "weekly" THEN 7 ELSE 1
Window(slot) == slot.slot_end.t - slot.slot_start.t
HasWindow(slot) == slot.slot_start.kind = "ts" /\ slot.slot_end.kind = "ts"

\* ------------------------------------------------------------------- C1
\* C1 as stated: a run with all store calls succeeding shifts every enabled
\* slot whose override is true, whatever time has elapsed, and the stored
\* override is false afterwards (both shapes).
C1_OverrideForcesShift ==
  /\ (op = "update_slots" /\ AllCallsOk) =>
       \A k \in PreSlots :
         (pre.slots[k].enabled /\ pre.slots[k].override) =>
           (ShiftedMulti(k) /\ ~slots[k].override)
  /\ (op = "update_slot" /\ AllCallsOk) =>
       ((pre.single.present /\ pre.single.enabled /\ pre.single.override) =>
          (ShiftedSingle /\ ~single.override))

\* C1 amended: override never forces a shift and is never reset.  A run of
\* update_slots issues no patch for a slot whose override is true and
\* leaves it as it was, however long ago last_update is; update_slot
\* decides by the elapsed time alone (24 hours since a parsable last_update)
\* and writes the override it read back.
C1_OverrideNeverForcesShift ==
  /\ op = "update_slots" =>
       \A k \in PreSlots :
         pre.slots[k].override => (UntouchedMulti(k) /\ slots[k].override)
  /\ (op = "update_slot" /\ pre.single.present /\ pre.single.override) =>
       /\ single.override
       /\ AllCallsOk =>
            IF ElapsedAtLeast(pre.single, 24) THEN ShiftedSingle ELSE UntouchedSingle

\* an enabled weekly slot with override set, a week after its renewal, has
\* gone through a successful run of update_slots
C1_Witness ==
  /\ op = "update_slots" /\ AllCallsOk
  /\ \E k \in PreSlots :
       /\ pre.slots[k].enabled /\ pre.slots[k].override
       /\ ElapsedAtLeast(pre.slots[k], 168)
       /\ slots[k].override

\* ------------------------------------------------------------------- C2
\* C2 as stated: an enabled slot with override false and a parsable
\* last_update is shifted by a run whose calls succeed iff the elapsed time
\* reaches the threshold of its cadence (168 h weekly, 24 h otherwise), in
\* both storage shapes.
C2_ShiftIffCadenceThreshold ==
  /\ (op = "update_slots" /\ AllCallsOk) =>
       \A k \in PreSlots :
         (pre.slots[k].enabled /\ ~pre.slots[k].override
            /\ pre.slots[k].last_update.kind = "ts") =>
           IF ElapsedAtLeast(pre.slots[k], CadenceHours(pre.slots[k]))
             THEN ShiftedMulti(k) ELSE UntouchedMulti(k)
  /\ (op = "update_slot" /\ AllCallsOk) =>
       ((pre.single.present /\ pre.single.enabled /\ ~pre.single.override
           /\ pre.single.last_update.kind = "ts") =>
          IF ElapsedAtLeast(pre.single, CadenceHours(pre.single))
            THEN ShiftedSingle ELSE UntouchedSingle)

\* C2 amended: the threshold is 168 h for a weekly slot of the multi-slot
\* mapping and 24 h otherwise: for a daily slot, a slot without cadence,
\* and every slot of the single-slot shape, whose cadence update_slot does
\* not read.
C2_ShiftIffThresholdOfShape ==
  /\ (op = "update_slots" /\ AllCallsOk) =>
       \A k \in PreSlots :
         (pre.slots[k].enabled /\ ~pre.slots[k].override
            /\ pre.slots[k].last_update.kind = "ts") =>
           IF ElapsedAtLeast(pre.slots[k], CadenceHours(pre.slots[k]))
             THEN ShiftedMulti(k) ELSE UntouchedMulti(k)
  /\ (op = "update_slot" /\ AllCallsOk) =>
       ((pre.single.present /\ pre.single.enabled /\ ~pre.single.override
           /\ pre.single.last_update.kind = "ts") =>
          IF ElapsedAtLeast(pre.single, 24) THEN ShiftedSingle ELSE UntouchedSingle)

\* one run finds a weekly slot at 167 h, which it leaves, and a daily slot
\* past 24 h, which it shifts
C2_Witness ==
  /\ op = "update_slots" /\ AllCallsOk
  /\ \E k, j \in PreSlots :
       /\ pre.slots[k].enabled /\ ~pre.slots[k].override
       /\ pre.slots[k].period = "weekly"
       /\ ElapsedAtLeast(pre.slots[k], 167) /\ ~ElapsedAtLeast(pre.slots[k], 168)
       /\ UntouchedMulti(k)
       /\ pre.slots[j].enabled /\ ~pre.slots[j].override
       /\ pre.slots[j].period = "daily"
       /\ ElapsedAtLeast(pre.slots[j], 24)
       /\ ShiftedMulti(j)

\* ------------------------------------------------------------------- C3
\* C3 as stated: a shift preserves the length of any parsable window.
C3_WindowLengthPreserved ==
  /\ op = "update_slots" =>
       \A k \in PreSlots :
         (PatchedOk(SlotPath(k)) /\ HasWindow(pre.slots[k])) =>
           (HasWindow(slots[k]) /\ Window(slots[k]) = Window(pre.slots[k]))
  /\ op = "update_slot" =>
       ((PatchedOk(SettingsPath) /\ HasWindow(pre.single)) =>
          (HasWindow(single) /\ Window(single) = Window(pre.single)))

\* C3 amended: after a shift the window is exactly one shift amount long
\* (7 days for a weekly slot of the multi-slot mapping, 1 day otherwise),
\* whatever slot_end was before: the length is preserved iff it was one
\* shift amount.
C3_WindowIsOneShiftAmount ==
  /\ op = "update_slots" =>
       \A k \in PreSlots :
         PatchedOk(SlotPath(k)) =>
           /\ HasWindow(slots[k])
           /\ Window(slots[k]) = CadenceDays(pre.slots[k]) * Day
           /\ HasWindow(pre.slots[k]) =>
                (Window(slots[k]) = Window(pre.slots[k])
                   <=> Window(pre.slots[k]) = CadenceDays(pre.slots[k]) * Day)
  /\ op = "update_slot" =>
       (PatchedOk(SettingsPath) =>
          /\ HasWindow(single)
          /\ Window(single) = Day
          /\ HasWindow(pre.single) =>
               (Window(single) = Window(pre.single) <=> Window(pre.single) = Day))

\* a slot whose window was 12 hours long has been shifted
C3_Witness ==
  /\ op = "update_slots"
  /\ \E k \in PreSlots :
       /\ PatchedOk(SlotPath(k))
       /\ HasWindow(pre.slots[k])
       /\ Window(pre.slots[k]) = 12 * Hour
       /\ Window(slots[k]) = Day

\* ------------------------------------------------------------------- C4
\* C4 as stated: no run of the scheduler changes a field of a disabled
\* slot, in either storage shape.
C4_DisabledNeverMutated ==
  op \in {"update_slots", "update_slot"} =>
    /\ \A k \in PreSlots : ~pre.slots[k].enabled => UntouchedMulti(k)
    /\ (pre.single.present /\ ~pre.single.enabled) => UntouchedSingle

\* C4 amended: no run of update_slots, update_slot or lock_check changes a
\* disabled slot of the multi-slot mapping (the single-slot shape has no
\* enabled check).
C4_DisabledMultiSlotNeverMutated ==
  op \in {"update_slots", "update_slot", "lock_check"} =>
    \A k \in PreSlots : ~pre.slots[k].enabled => UntouchedMulti(k)

\* a run that shifted one slot met a disabled slot that was due and had
\* override set
C4_Witness ==
  /\ op = "update_slots"
  /\ \E k, j \in PreSlots :
       /\ ~pre.slots[k].enabled /\ pre.slots[k].override
       /\ ElapsedAtLeast(pre.slots[k], 24)
       /\ ShiftedMulti(j)

\* ------------------------------------------------------------------- C5
SweepCallsOk(s) == \A j \in s.at..s.until : calls[j].ok
HasAllRequired(node) == node.isdict /\ required_fields \subseteq node.has
Pending(node) == HasAllRequired(node) /\ node.locked = 0

\* C5: a sweep whose read and patches all succeed sets locked to 1 on every
\* credential that had locked = 0, leaves every other entry of the root as
\* it was, and patches nothing but those credentials.
C5_SweepLocksExactlyPending ==
  \A i \in DOMAIN sweeps :
    LET s == sweeps[i] IN
    SweepCallsOk(s) =>
      /\ DOMAIN s.after = DOMAIN s.before
      /\ \A key \in DOMAIN s.before :
           s.after[key] = IF Pending(s.before[key])
                            THEN [s.before[key] EXCEPT !.locked = 1]
                            ELSE s.before[key]
      /\ \A j \in s.at..s.until :
           calls[j].m = "PATCH" =>
             \E key \in DOMAIN s.before :
               calls[j].path = <<key>> /\ Pending(s.before[key])

\* a successful sweep met an unlocked credential, an exempt one and an
\* entry with locked = 0 that lacks a required field
C5_Witness ==
  \E i \in DOMAIN sweeps :
    LET s == sweeps[i] IN
    /\ SweepCallsOk(s) /\ s.read
    /\ \E a, b, c \in DOMAIN s.before :
         /\ Pending(s.before[a]) /\ s.after[a].locked = 1
         /\ HasAllRequired(s.before[b]) /\ s.before[b].locked = 2
         /\ ~HasAllRequired(s.before[c]) /\ s.before[c].locked = 0

\* ------------------------------------------------------------------- C6
NearEnd(slot) == slot.slot_end.kind = "ts" /\ clock >= slot.slot_end.t - 2 * Minute

\* C6 as stated: lock_check sweeps iff some enabled slot, of either shape,
\* has a parsable slot_end with now >= slot_end - 2 minutes.
C6_SweepIffEnabledSlotNearEnd ==
  (op = "lock_check" /\ AllCallsOk) =>
    (Len(sweeps) >= 1 <=>
       \/ \E k \in PreSlots : pre.slots[k].enabled /\ NearEnd(pre.slots[k])
       \/ pre.single.present /\ pre.single.enabled /\ NearEnd(pre.single))

\* C6 amended: lock_check sweeps (once) iff its read of settings succeeds
\* and the slot_end stored directly under settings is parsable with
\* now >= slot_end - 2 minutes, whether or not that slot is enabled; the
\* slots of the multi-slot mapping are not consulted.  Without a sweep no
\* credential is written.
C6_SweepIffSingleSlotEndNear ==
  op = "lock_check" =>
    /\ Len(sweeps) = IF calls[1].ok /\ NearEnd(pre.single) THEN 1 ELSE 0
    /\ Len(sweeps) = 0 => (Len(calls) = 1 /\ nodes = pre.nodes)

\* lock_check swept at exactly slot_end - 2 minutes of a disabled single slot
C6_Witness ==
  /\ op = "lock_check"
  /\ Len(sweeps) = 1
  /\ pre.single.present /\ ~pre.single.enabled
  /\ pre.single.slot_end.kind = "ts"
  /\ clock = pre.single.slot_end.t - 2 * Minute
  /\ \E key \in DOMAIN nodes : pre.nodes[key].locked = 0 /\ nodes[key].locked = 1

\* ------------------------------------------------------------------- C7
IsSlotPath(path) == path = SettingsPath \/ \E k \in SlotKeys : path = SlotPath(k)
SlotPatches == {i \in DOMAIN calls : calls[i].m = "PATCH" /\ IsSlotPath(calls[i].path)}
ShiftCount == Cardinality({i \in SlotPatches : calls[i].ok})

\* C7 as stated: a run of the scheduler sweeps once if it shifted at least
\* one slot and not at all otherwise, after all slots have been processed.
C7_OneSweepPerRun ==
  op \in {"update_slots", "update_slot"} =>
    /\ Len(sweeps) = IF ShiftCount >= 1 THEN 1 ELSE 0
    /\ \A i \in DOMAIN sweeps : \A j \in SlotPatches : j < sweeps[i].at

\* C7 amended: a run sweeps once per shifted slot, right after that slot's
\* patch and before the next slot is processed: as many sweeps as shifted
\* slots, none if none.
C7_OneSweepPerShiftedSlot ==
  op \in {"update_slots", "update_slot"} =>
    /\ Len(sweeps) = ShiftCount
    /\ \A j \in SlotPatches :
         calls[j].ok =>
           /\ \E i \in DOMAIN sweeps : sweeps[i].at = j + 1
           /\ calls[j + 1].m = "GET" /\ calls[j + 1].path = RootPath

\* a run shifted two slots and swept twice, the first sweep before the
\* second slot was patched
C7_Witness ==
  /\ op = "update_slots"
  /\ ShiftCount = 2
  /\ Len(sweeps) = 2
  /\ \E j \in SlotPatches : sweeps[1].until < j

\* ------------------------------------------------------------------- C8
\* C8: /getData and /setData answer a request whose X-Secret is absent or
\* differs from the secret with 403, call the store not at all, leave it
\* unchanged and return none of its content.
C8_WrongSecretIsRefused ==
  (op \in {"get_data", "set_data"} /\ req # secret) =>
    /\ resp = Response(403, "Unauthorized")
    /\ calls = <<>>
    /\ Current = pre

\* /getData was called with a wrong secret on a store that holds credentials
C8_Witness ==
  /\ op = "get_data"
  /\ req = "guess"
  /\ secret = "s3cret"
  /\ resp.status = 403
  /\ \E key \in DOMAIN nodes : HasAllRequired(nodes[key])

\* ------------------------------------------------------------------- C9
FirstReadEmpty ==
  IF op = "update_slots" THEN DOMAIN pre.slots = {}
  ELSE ~pre.single.present /\ DOMAIN pre.slots = {}

\* C9: a scheduler or lock_check run answers 200; when its first read fails
\* or returns nothing it makes no other call and the store is unchanged; a
\* sweep whose read fails patches nothing; a failed slot patch is followed
\* by no sweep and the slot stays as it was.
C9_FailedCallsWriteNothing ==
  op \in {"update_slots", "update_slot", "lock_check"} =>
    /\ resp.status = 200
    /\ (~calls[1].ok \/ FirstReadEmpty) => (Len(calls) = 1 /\ Current = pre)
    /\ \A i \in DOMAIN sweeps :
         ~calls[sweeps[i].at].ok =>
           (sweeps[i].until = sweeps[i].at /\ sweeps[i].after = sweeps[i].before)
    /\ \A j \in SlotPatches :
         ~calls[j].ok =>
           /\ \A i \in DOMAIN sweeps : sweeps[i].at # j + 1
           /\ j < Len(calls) => (j + 1) \in SlotPatches
           /\ calls[j].path = SettingsPath => single = pre.single
           /\ \A k \in PreSlots : calls[j].path = SlotPath(k) => slots[k] = pre.slots[k]

\* the patch of the first slot failed and the run went on to shift the
\* second one, whose sweep locked a credential
C9_Witness ==
  /\ op = "update_slots"
  /\ Len(calls) >= 3
  /\ calls[2].m = "PATCH" /\ ~calls[2].ok
  /\ calls[3].m = "PATCH" /\ calls[3].ok
  /\ Len(sweeps) = 1
  /\ \E key \in DOMAIN nodes : pre.nodes[key].locked = 0 /\ nodes[key].locked = 1

\* ------------------------------------------------------------------ C10
Transitioned(s) ==
  {key \in DOMAIN s.before : s.before[key].locked = 0 /\ s.after[key].locked = 1}

\* C10: the count a sweep reports is the number of credentials it moved
\* from locked = 0 to locked = 1, for the sweep after a shift and for the
\* sweep of lock_check alike.
C10_ReportedCountIsConfirmed ==
  \A i \in DOMAIN sweeps :
    sweeps[i].read => sweeps[i].reported = Cardinality(Transitioned(sweeps[i]))

\* the part of C10 about the sweep that follows a shift
C10_ReportedCountIsConfirmedAfterShift ==
  \A i \in DOMAIN sweeps :
    (sweeps[i].read /\ sweeps[i].by = "lock_all_except_2") =>
      sweeps[i].reported = Cardinality(Transitioned(sweeps[i]))

\* ------------------------------------------------------------------ C11
Unreadable(slot) == slot.last_update.kind # "ts"

\* C11: an enabled slot with override false whose last_update is absent,
\* empty or unparsable is not due, whatever the time of the run and its
\* slot_start, slot_end and cadence: the run issues no patch for it, leaves
\* it as it was, and every sweep of the run follows the successful patch of
\* another slot (none at all in the single-slot shape).
C11_UnreadableLastUpdateIsNotDue ==
  /\ op = "update_slots" =>
       \A k \in PreSlots :
         (pre.slots[k].enabled /\ ~pre.slots[k].override /\ Unreadable(pre.slots[k])) =>
           /\ UntouchedMulti(k)
           /\ Len(sweeps) = Cardinality({j \in PreSlots \ {k} : PatchedOk(SlotPath(j))})
  /\ (op = "update_slot" /\ pre.single.present
        /\ ~pre.single.override /\ Unreadable(pre.single)) =>
       (UntouchedSingle /\ sweeps = <<>> /\ Len(calls) = 1)

\* a week after the start, a run left a slot with an unreadable last_update
\* alone and shifted the slot next to it
C11_Witness ==
  /\ op = "update_slots" /\ AllCallsOk
  /\ clock = T0 + 7 * Day
  /\ \E k \in PreSlots, j \in PreSlots :
       /\ pre.slots[k].enabled /\ ~pre.slots[k].override /\ Unreadable(pre.slots[k])
       /\ slots[k] = pre.slots[k]
       /\ j # k /\ ShiftedMulti(j)

\* ------------------------------------------------------------------ C12
\* the now of the run as a stored timestamp ("%Y-%m-%d %H:%M:%S")
NowStamp == format_ist(clock)
Advanced(old, new, days) ==
  old.slot_start.kind = "ts" =>
    (new.slot_start = TS(old.slot_start.t + days * Day) /\ new.last_update = NowStamp)

\* C12 as stated: after a successful shift of a slot with a parsable
\* slot_start, the stored slot_start is the previous one plus 1 day for a
\* daily slot and 7 days for a weekly slot, in both storage shapes, and the
\* stored last_update is the now of the run.
C12_StartAdvancesByCadence ==
  /\ op = "update_slots" =>
       \A k \in PreSlots :
         ShiftedMulti(k) => Advanced(pre.slots[k], slots[k], CadenceDays(pre.slots[k]))
  /\ (op = "update_slot" /\ ShiftedSingle) =>
       Advanced(pre.single, single, CadenceDays(pre.single))

\* C12 amended: the shift amount is 7 days for a weekly slot of the
\* multi-slot mapping and 1 day otherwise: for a daily slot, a slot without
\* cadence, and every slot of the single-slot shape.
C12_StartAdvancesByShapeAmount ==
  /\ op = "update_slots" =>
       \A k \in PreSlots :
         ShiftedMulti(k) => Advanced(pre.slots[k], slots[k], CadenceDays(pre.slots[k]))
  /\ (op = "update_slot" /\ ShiftedSingle) => Advanced(pre.single, single, 1)

\* a single-slot slot marked weekly was shifted by a day, in a run that did
\* not start on a whole second
C12_Witness ==
  /\ op = "update_slot" /\ ShiftedSingle
  /\ pre.single.period = "weekly" /\ pre.single.slot_start.kind = "ts"
  /\ single.slot_start = TS(pre.single.slot_start.t + Day)
  /\ clock % Sec # 0

\* ------------------------------------------------------------------ C13
\* slot_start 2025-01-01 09:00:00, slot_end 2025-01-02 09:00:00, last_update
\* 2025-01-01 09:00:00, enabled, daily, override false
ScenarioSlot(slot) ==
  /\ slot.enabled /\ ~slot.override /\ slot.period = "daily"
  /\ slot.slot_start = TS(T0) /\ slot.slot_end = TS(T0 + Day) /\ slot.last_update = TS(T0)
\* now is 2025-01-02 09:00:01
ScenarioNow == NowStamp = TS(T0 + Day + Sec)
ScenarioOutcome(slot) ==
  /\ slot.slot_start = TS(T0 + Day)
  /\ slot.slot_end = TS(T0 + 2 * Day)
  /\ slot.last_update = TS(T0 + Day + Sec)
\* the sweeps that start right after the successful patch of path
SweepsAfterPatch(path) ==
  {i \in DOMAIN sweeps :
     /\ sweeps[i].at > 1
     /\ calls[sweeps[i].at - 1] = [m |-> "PATCH", path |-> path, ok |-> TRUE]}

\* C13: in the scenario above, with every store call succeeding, the run
\* stores slot_start 2025-01-02 09:00:00, slot_end 2025-01-03 09:00:00 and
\* last_update 2025-01-02 09:00:01, and exactly one sweep runs, after the
\* slot was persisted (the only sweep of the run when the slot is alone).
C13_EndToEndScenario ==
  /\ (op = "update_slots" /\ AllCallsOk /\ ScenarioNow) =>
       \A k \in PreSlots :
         ScenarioSlot(pre.slots[k]) =>
           /\ ScenarioOutcome(slots[k])
           /\ Cardinality(SweepsAfterPatch(SlotPath(k))) = 1
           /\ PreSlots = {k} => Len(sweeps) = 1
  /\ (op = "update_slot" /\ AllCallsOk /\ ScenarioNow /\ pre.single.present) =>
       (ScenarioSlot(pre.single) =>
          /\ ScenarioOutcome(single)
          /\ Cardinality(SweepsAfterPatch(SettingsPath)) = 1
          /\ Len(sweeps) = 1)

\* the scenario ran on a mapping that holds the one slot, and its sweep
\* locked a credential
C13_Witness ==
  /\ op = "update_slots" /\ AllCallsOk /\ ScenarioNow
  /\ PreSlots = {"slot_1"} /\ ScenarioSlot(pre.slots["slot_1"])
  /\ ScenarioOutcome(slots["slot_1"])
  /\ Len(sweeps) = 1 /\ sweeps[1].reported > 0

\* ------------------------------------------------------------------ C14
\* a run of the route, every call of which succeeded, is followed at once
\* and at the same now by another such run of the same route
SameNowAgain(name) ==
  /\ op = name /\ AllCallsOk
  /\ op' = name /\ AllCallsOk'
  /\ clock' = clock

\* C14: each trigger is idempotent.  The second of two successive runs of
\* update_slots, or of update_slot, at the same now and with every call
\* succeeding reads the settings and does nothing else: the store is as the
\* first run left it, no slot is shifted and no sweep starts.  The second
\* of two such runs of lock_check leaves the store as it was and every
\* sweep it makes reports 0 locked credentials.
C14_TriggersAreIdempotent ==
  [][ /\ (SameNowAgain("update_slots") \/ SameNowAgain("update_slot")) =>
           (Current' = Current /\ Len(calls') = 1 /\ sweeps' = <<>>)
      /\ SameNowAgain("lock_check") =>
           /\ Current' = Current
           /\ \A i \in DOMAIN sweeps' : sweeps'[i].reported = 0
           /\ \A i \in DOMAIN calls' : calls'[i].m = "GET" ]_vars

\* a run of update_slots found, a day after the start, a slot that had just
\* been shifted at this very now, and left it alone
C14_Witness ==
  /\ op = "update_slots" /\ AllCallsOk
  /\ clock = T0 + Day
  /\ Len(calls) = 1 /\ Current = pre
  /\ \E k \in PreSlots :
       /\ pre.slots[k].enabled /\ ~pre.slots[k].override
       /\ pre.slots[k].slot_start = TS(T0 + Day)
       /\ pre.slots[k].last_update = NowStamp

\* ------------------------------------------------------------------ C15
Begun == {p \in Invocations : inv[p].pc # "idle"}
AllReturned == \A p \in Invocations : inv[p].pc = "done"
\* two invocations in flight took their now h hours or more apart
NowsApart(h) == \E p \in Begun, q \in Begun : inv[p].now - inv[q].now >= h * Hour

\* the store after the route ran alone, from its first call to its last
RanAlone(route, store, now) ==
  LET st == [single |-> store.single, slots |-> store.slots, nodes |-> store.nodes,
             calls |-> <<>>, sweeps |-> <<>>]
      r == CASE route = "update_slots" -> update_slots(st, NoFailure, now)
             [] route = "update_slot" -> update_slot(st, NoFailure, now)
             [] route = "lock_check" -> lock_check(st, NoFailure, now)
  IN Store(r.st.single, r.st.slots, r.st.nodes)
\* the store after p ran alone and then q did, from the store of the start
OneAfterTheOther(p, q) ==
  RanAlone(inv[q].route, RanAlone(inv[p].route, pre, inv[p].now), inv[q].now)

AtMostOneShift(old, new, days) ==
  new.slot_start \in {old.slot_start, TS(old.slot_start.t + days * Day)}
\* both invocations read the slot as it was at the start and patched it
BothPatchedFromSameRead(k) ==
  \A p \in Invocations :
    /\ inv[p].route = "update_slots"
    /\ k \in inv[p].patched
    /\ inv[p].slots_data[k] = pre.slots[k]
\* run one after the other, the two invocations shift the slot twice
TwoRenewalsDue(k) ==
  \E p \in Invocations, q \in Invocations :
    /\ p # q /\ inv[p].now <= inv[q].now
    /\ OneAfterTheOther(p, q).slots[k].slot_start
         = TS(pre.slots[k].slot_start.t + 2 * CadenceDays(pre.slots[k]) * Day)

\* C15: overlapping scheduler invocations are not kept apart, and what
\* their interleavings do to a slot is this.  An invocation patches what it
\* computed from its own read, so two invocations that read the same slot
\* both store its slot_start plus one shift amount: a slot is never moved
\* on by two shift amounts while the invocations took their now less than
\* a threshold apart, and once they have returned the slots are as after
\* running them one after the other in some order.  When they took their
\* now a threshold or more apart, so that run one after the other they
\* shift twice, the slot still ends one shift amount on: a shift is lost.
C15_OverlapLosesShift ==
  /\ ~NowsApart(DailyHours) =>
       /\ \A k \in PreSlots :
            AtMostOneShift(pre.slots[k], slots[k], CadenceDays(pre.slots[k]))
       /\ AtMostOneShift(pre.single, single, 1)
       /\ AllReturned =>
            \E p \in Invocations, q \in Invocations :
              /\ p # q
              /\ single = OneAfterTheOther(p, q).single
              /\ slots = OneAfterTheOther(p, q).slots
  /\ \A k \in PreSlots :
       BothPatchedFromSameRead(k) =>
         slots[k].slot_start = TS(pre.slots[k].slot_start.t + CadenceDays(pre.slots[k]) * Day)

\* an invocation read a due slot and stalled; a day later a second one read
\* the same values, and both patched: one after the other they shift the
\* slot twice, overlapping they have shifted it once
C15_Witness ==
  /\ AllReturned
  /\ \E k \in PreSlots :
       /\ BothPatchedFromSameRead(k)
       /\ TwoRenewalsDue(k)
       /\ slots[k].slot_start = TS(pre.slots[k].slot_start.t + CadenceDays(pre.slots[k]) * Day)

\* ------------------------------------------------------------------ C16
\* enabled, override false, and the threshold of the cadence has elapsed
\* since a parsable last_update
DueMulti(slot) ==
  slot.enabled /\ ~slot.override /\ ElapsedAtLeast(slot, CadenceHours(slot))
\* the slot is one the run skips, or one whose timestamps are malformed
SkippedOrMalformed(slot) ==
  \/ ~slot.isdict
  \/ ~slot.enabled \/ slot.override
  \/ slot.last_update.kind # "ts" \/ slot.slot_start.kind # "ts"
  \/ ~ElapsedAtLeast(slot, CadenceHours(slot))

\* C16: the slots of one update_slots run are processed independently.
\* Once the slots were read, every enabled, due, non-override slot gets
\* its patch, and is shifted and persisted whenever its own patch answers
\* 200, whatever the other slots are (skipped, malformed, or failing their
\* patch or their sweep) and whether they come before or after it.
C16_SlotsProcessedIndependently ==
  (op = "update_slots" /\ calls[1].ok) =>
    \A k \in PreSlots :
      DueMulti(pre.slots[k]) =>
        /\ Attempted(SlotPath(k))
        /\ PatchedOk(SlotPath(k)) =>
             (ShiftedMulti(k) /\ slots[k].last_update = NowStamp)

\* the first slot was shifted although its sweep failed and the second slot
\* is malformed, or the first slot is malformed and its patch failed and the
\* second was shifted all the same
C16_FirstOfTwo ==
  /\ DueMulti(pre.slots["slot_1"]) /\ ShiftedMulti("slot_1") /\ ~AllCallsOk
  /\ SkippedOrMalformed(pre.slots["slot_2"])
  /\ pre.slots["slot_2"].last_update.kind # "ts"
C16_SecondOfTwo ==
  /\ SkippedOrMalformed(pre.slots["slot_1"])
  /\ pre.slots["slot_1"].slot_start.kind # "ts"
  /\ Attempted(SlotPath("slot_1")) /\ ~PatchedOk(SlotPath("slot_1"))
  /\ DueMulti(pre.slots["slot_2"]) /\ ShiftedMulti("slot_2")
C16_Witness ==
  /\ op = "update_slots"
  /\ PreSlots = SlotKeys
  /\ C16_SecondOfTwo
C16_WitnessOtherOrder ==
  /\ op = "update_slots"
  /\ PreSlots = SlotKeys
  /\ C16_FirstOfTwo

\* ------------------------------------------------------------------ C17
\* C17: in every interleaving of a sweep with a writer outside the
\* program, no step takes a credential whose stored locked is 2 to another
\* value: a sweep never patches locked = 1 over an exemption, not even one
\* the writer stored between the read of the sweep and its patch.
C17_SweepNeverOverwritesExemption ==
  [][\A key \in DOMAIN nodes : nodes[key].locked = 2 => nodes'[key].locked = 2]_vars

\* the part of C17 that holds: a credential that was exempt when the sweep
\* read the tree is not among those the sweep patches
C17_SweepSkipsExemptionItRead ==
  [][\A p \in Invocations :
       RaceSweepRead(p) =>
         \A i \in DOMAIN inv'[p].todo : nodes[inv'[p].todo[i]].locked = 0]_vars

\* ------------------------------------------------------------------ C18
\* the entry is as it was, or it is a credential moved from locked 0 to 1
\* and nothing else of it changed
OnlyLocked(old, new) ==
  \/ new = old
  \/ (HasAllRequired(old) /\ old.locked = 0 /\ new = [old EXCEPT !.locked = 1])
\* of a slot, only slot_start, slot_end, last_update and override may differ
OnlySlotFields(old, new) ==
  \E s \in {old.slot_start, new.slot_start}, e \in {old.slot_end, new.slot_end},
     u \in {old.last_update, new.last_update}, o \in {old.override, new.override} :
    new = [old EXCEPT !.slot_start = s, !.slot_end = e, !.last_update = u, !.override = o]
CredentialPaths == {<<key>> : key \in DOMAIN pre.nodes}
SlotPaths == {SettingsPath} \cup {SlotPath(k) : k \in DOMAIN pre.slots}

\* C18: a run of update_slots, update_slot or lock_check creates and
\* deletes no entry of the tree, changes a credential only by setting its
\* locked from 0 to 1 (an entry at 1 or 2 keeps its value and no other
\* field changes), and changes of a slot only slot_start, slot_end,
\* last_update and override, never enabled or the cadence; every write it
\* sends is a patch of a credential's locked or of these slot fields.
C18_WritesOnlyLockedAndSlotFields ==
  op \in {"update_slots", "update_slot", "lock_check"} =>
    /\ DOMAIN nodes = DOMAIN pre.nodes
    /\ \A key \in DOMAIN pre.nodes : OnlyLocked(pre.nodes[key], nodes[key])
    /\ DOMAIN slots = DOMAIN pre.slots
    /\ \A k \in DOMAIN pre.slots :
         IF pre.slots[k].isdict THEN OnlySlotFields(pre.slots[k], slots[k])
         ELSE slots[k] = pre.slots[k]
    /\ OnlySlotFields(pre.single, single)
    /\ \A i \in DOMAIN calls :
         calls[i].m # "GET" =>
           (calls[i].m = "PATCH" /\ calls[i].path \in CredentialPaths \cup SlotPaths)
    /\ op = "lock_check" => (slots = pre.slots /\ single = pre.single)

\* a run of lock_check locked a credential next to one that is exempt
C18_Witness ==
  /\ op = "lock_check"
  /\ \E key \in DOMAIN nodes : pre.nodes[key].locked = 0 /\ nodes[key].locked = 1
  /\ \E key \in DOMAIN nodes : HasAllRequired(pre.nodes[key]) /\ nodes[key].locked = 2

\* ------------------------------------------------------------------ C19
NoPending == \A key \in DOMAIN nodes : ~Pending(nodes[key])
\* the tree with every pending credential locked
LockedAll(tree) ==
  [key \in DOMAIN tree |->
     IF Pending(tree[key]) THEN [tree[key] EXCEPT !.locked = 1] ELSE tree[key]]
\* some enabled slot, of either shape, has a parsable slot_end with now >=
\* slot_end - 2 minutes
GoverningNear ==
  \/ (single.present /\ single.enabled /\ NearEnd(single))
  \/ \E k \in DOMAIN slots : slots[k].isdict /\ slots[k].enabled /\ NearEnd(slots[k])
\* a sweep, after a shift or of lock_check, whose calls all succeed ends
\* with every credential it found pending locked and nothing else changed
SweepsAgree ==
  \A i \in DOMAIN sweeps :
    (sweeps[i].read /\ SweepCallsOk(sweeps[i])) =>
      sweeps[i].after = LockedAll(sweeps[i].before)

\* C19 as stated: once now >= slot_end - 2 minutes for the governing slot,
\* of either shape, and for as long as this is so, lock_check being called
\* again and again with its calls succeeding and no other writer, every
\* credential with locked = 0 eventually has locked = 1.
C19_LockedOnceAnySlotEnds ==
  GoverningNear ~> (NoPending \/ ~GoverningNear)

\* C19 amended: the governing slot_end is the one stored directly under
\* settings.  Once now >= settings.slot_end - 2 minutes, and for as long as
\* this is so, every credential with locked = 0 eventually has locked = 1;
\* and the sweep after a shift and the sweep of lock_check end in the same
\* locked state.
C19_LockedOnceSettingsSlotEnds ==
  /\ []SweepsAgree
  /\ (single.present /\ NearEnd(single)) ~> (NoPending \/ ~NearEnd(single))

\* two minutes before settings.slot_end a run of lock_check, one of whose
\* patches had failed, left a credential unlocked
C19_Witness ==
  /\ op = "lock_check" /\ ~AllCallsOk
  /\ single.present /\ NearEnd(single)
  /\ clock = single.slot_end.t - MarginMinutes * Minute
  /\ ~NoPending

\* ------------------------------------------------------------------ C20
PatchesOf(path) == {i \in DOMAIN calls : calls[i].m = "PATCH" /\ calls[i].path = path}
\* the shift moved slot_start on by days and nothing more, and was due
OneShift(old, new, days, hours) ==
  /\ old.slot_start.kind = "ts" => new.slot_start = TS(old.slot_start.t + days * Day)
  /\ new.slot_end = TS(new.slot_start.t + days * Day)
  /\ new.last_update = NowStamp
  /\ ElapsedAtLeast(old, hours)

\* C20: a run advances a slot by at most one shift amount, however old its
\* last_update is.  A slot a run shifted got one patch, its slot_start
\* moved on by exactly one shift amount, its last_update is the now of the
\* run, and the run came a whole threshold or more after the last_update
\* it found: the next shift comes no sooner than a threshold after this
\* one, so the stored window can end before now.
C20_OneShiftPerRun ==
  /\ op = "update_slots" =>
       \A k \in PreSlots :
         /\ Cardinality(PatchesOf(SlotPath(k))) <= 1
         /\ ShiftedMulti(k) =>
              OneShift(pre.slots[k], slots[k],
                       CadenceDays(pre.slots[k]), CadenceHours(pre.slots[k]))
  /\ op = "update_slot" =>
       /\ Cardinality(PatchesOf(SettingsPath)) <= 1
       /\ ShiftedSingle => OneShift(pre.single, single, 1, 24)

\* a daily slot last updated seven days before was shifted by one day, and
\* its new window ends five days before now
C20_Witness ==
  /\ op = "update_slots"
  /\ \E k \in PreSlots :
       /\ ShiftedMulti(k)
       /\ CadenceDays(pre.slots[k]) = 1
       /\ ElapsedAtLeast(pre.slots[k], 7 * 24)
       /\ pre.slots[k].slot_start.kind = "ts"
       /\ slots[k].slot_end.t + 5 * Day <= clock

====
